---- MODULE Spec2Model ----
(***************************************************************************)
(* Model of kazeto/xsync, src/sync.py: a script that mirrors a local       *)
(* directory with remote directories through rsync/ssh, with "only" and    *)
(* "ignore" rules from ./.sync.conf and per-directory .syncignore files.   *)
(*                                                                         *)
(* Python strings are sequences of one-character strings, so that find,    *)
(* slicing, strip and split are computed as Python computes them.  A       *)
(* Python exception ends the call: pc becomes "raised" and exc names it.   *)
(***************************************************************************)
EXTENDS Integers, Sequences, FiniteSets, TLC

VARIABLES
    pc,        \* position: "main:224", "main:226", "call:<function>", "returned", "raised"
    exc,       \* name of the exception that ended the call, "" when none
    ret,       \* value returned by the function under call
    opts,      \* the global opts: [src, dests, dry_run]
    conffile,  \* lines of ./.sync.conf
    fs,        \* host -> sequence of files [path, data] in find's traversal order
    fs0,       \* the file trees as they were when the call started
    down,      \* hosts that cannot be reached: every command sent to them fails
    s,         \* argument of Target.str2target
    target,    \* argument of read_syncignore / clear
    src,       \* argument src of rsync
    dest,      \* argument dest of rsync
    conf,      \* SyncConf: [only: set of <<host, snipet>>, ignore: set of snipets]
    cmds,      \* commands executed by run_command, in order
    ignored,   \* rsync's locals: [logged, val: `ignored` at line 207, cmd: `cmd` at line 210]
    removed    \* clear's local `removed` as logged at line 182

vars == <<pc, exc, ret, opts, conffile, fs, fs0, down, s, target, src, dest, conf, cmds,
          ignored, removed>>

----------------------------------------------------------------------------
(* Bounds *)

MaxStr == 4        \* longest argument string of str2target
MaxConfLines == 2  \* most lines in ./.sync.conf
MaxDests == 2      \* most dests on the command line
MaxMarkerLines == 2  \* most lines in one .syncignore file

----------------------------------------------------------------------------
(* Python string primitives *)

Min(a, b) == IF a < b THEN a ELSE b
Max(a, b) == IF a > b THEN a ELSE b

Whitespace == {" ", "\n", "\t"}

\* index normalisation of a slice bound, as Python clamps it
PyIndex(i, n) == IF i < 0 THEN Max(i + n, 0) ELSE Min(i, n)

\* str[lo:hi]
PySlice(str, lo, hi) ==
    SubSeq(str, PyIndex(lo, Len(str)) + 1, PyIndex(hi, Len(str)))

\* str.find(c): lowest 0-based index of c, or -1
PyFind(str, c) ==
    IF \E i \in 1..Len(str) : str[i] = c
    THEN (CHOOSE i \in 1..Len(str) :
              str[i] = c /\ \A j \in 1..(i - 1) : str[j] # c) - 1
    ELSE -1

\* str.rfind(c): highest 0-based index of c, or -1
PyRFind(str, c) ==
    IF \E i \in 1..Len(str) : str[i] = c
    THEN (CHOOSE i \in 1..Len(str) :
              str[i] = c /\ \A j \in (i + 1)..Len(str) : str[j] # c) - 1
    ELSE -1

RECURSIVE LStrip(_, _)
LStrip(str, chars) ==
    IF str # <<>> /\ Head(str) \in chars THEN LStrip(Tail(str), chars) ELSE str

RECURSIVE RStrip(_, _)
RStrip(str, chars) ==
    IF str # <<>> /\ str[Len(str)] \in chars
    THEN RStrip(SubSeq(str, 1, Len(str) - 1), chars)
    ELSE str

\* str.strip(chars); str.strip() is PyStrip(str, Whitespace)
PyStrip(str, chars) == RStrip(LStrip(str, chars), chars)

\* str.split(sep) for a one-character sep: empty pieces are kept
RECURSIVE PySplitOn(_, _)
PySplitOn(str, sep) ==
    LET i == PyFind(str, sep)
    IN  IF i < 0 THEN <<str>>
        ELSE <<PySlice(str, 0, i)>> \o PySplitOn(PySlice(str, i + 1, Len(str)), sep)

\* str.split(sep, 1)
PySplitOnce(str, sep) ==
    LET i == PyFind(str, sep)
    IN  IF i < 0 THEN <<str>>
        ELSE <<PySlice(str, 0, i), PySlice(str, i + 1, Len(str))>>

\* length of the leading run of non-whitespace characters
RECURSIVE WordLen(_)
WordLen(str) ==
    IF str = <<>> \/ Head(str) \in Whitespace THEN 0 ELSE 1 + WordLen(Tail(str))

\* str.split(): pieces between runs of whitespace, no empty piece
RECURSIVE PySplit(_)
PySplit(str) ==
    LET t == LStrip(str, Whitespace)
    IN  IF t = <<>> THEN <<>>
        ELSE <<SubSeq(t, 1, WordLen(t))>> \o PySplit(SubSeq(t, WordLen(t) + 1, Len(t)))

\* sep.join(list)
RECURSIVE PyJoin(_, _)
PyJoin(list, sep) ==
    IF list = <<>> THEN <<>>
    ELSE IF Len(list) = 1 THEN list[1]
    ELSE list[1] \o sep \o PyJoin(Tail(list), sep)

\* concatenation of a sequence of sequences
RECURSIVE Flatten(_)
Flatten(list) == IF list = <<>> THEN <<>> ELSE Head(list) \o Flatten(Tail(list))

Range(seq) == {seq[i] : i \in 1..Len(seq)}

\* all sequences over S of length at most n
SeqsUpTo(S, n) == UNION {[1..k -> S] : k \in 0..n}

----------------------------------------------------------------------------
(* Target *)

\* the host names 'local' and 'remote' of lines 52, 68 and 128
HostLocal == <<"l", "o", "c", "a", "l">>
HostRemote == <<"r", "e", "m", "o", "t", "e">>

Target(host, path) == [host |-> host, path |-> path]

is_local(t) == t.host = HostLocal

\* Target.__str__
TargetStr(t) == IF is_local(t) THEN t.path ELSE t.host \o <<":">> \o t.path

\* Target.str2target
str2target(str) ==
    LET i == PyFind(str, ":")
    IN  IF i >= 0
        THEN Target(HostLocal, str)
        ELSE Target(PySlice(str, 0, i), PySlice(str, i + 1, Len(str)))

----------------------------------------------------------------------------
(* The file trees and the commands run_command hands to the shell *)

\* the name '.syncignore' of line 148
MarkerName == <<".", "s", "y", "n", "c", "i", "g", "n", "o", "r", "e">>

\* last component of a path
Basename(path) == PySlice(path, PyRFind(path, "/") + 1, Len(path))

\* os.path.dirname (posixpath)
PyDirname(path) ==
    LET head == PySlice(path, 0, PyRFind(path, "/") + 1)
    IN  IF head # <<>> /\ \E k \in 1..Len(head) : head[k] # "/"
        THEN RStrip(head, {"/"})
        ELSE head

\* shell-pattern match of find -name: '*' matches any run of characters
RECURSIVE Glob(_, _)
Glob(pat, str) ==
    IF pat = <<>> THEN str = <<>>
    ELSE IF Head(pat) = "*"
         THEN Glob(Tail(pat), str) \/ (str # <<>> /\ Glob(pat, Tail(str)))
         ELSE str # <<>> /\ Head(str) = Head(pat) /\ Glob(Tail(pat), Tail(str))

IsUnder(path, root) ==
    /\ Len(path) > Len(root) + 1
    /\ SubSeq(path, 1, Len(root)) = root
    /\ path[Len(root) + 1] = "/"

FilesOf(tree, host) == IF host \in DOMAIN tree THEN tree[host] ELSE <<>>

\* the files of host under root whose name matches the pattern, in
\* traversal order: what `find root -name pattern` lists
Matches(tree, host, root, pattern) ==
    SelectSeq(FilesOf(tree, host),
              LAMBDA f : IsUnder(f.path, root) /\ Glob(pattern, Basename(f.path)))

FindCmd(host, root, name) ==
    [prog |-> "find", host |-> host, path |-> root, name |-> name]
CatCmd(host, path) == [prog |-> "cat", host |-> host, path |-> path]
RmCmd(host, files) == [prog |-> "rm", host |-> host, files |-> files]

\* standard output of a command run by the shell (line 93); an unknown
\* host or a missing file gives empty output
Stdout(cmd, tree) ==
    IF cmd.prog = "find"
    THEN LET found == Matches(tree, cmd.host, cmd.path, cmd.name)
         IN  Flatten([k \in 1..Len(found) |-> found[k].path \o <<"\n">>])
    ELSE IF cmd.prog = "cat"
    THEN LET hit == SelectSeq(FilesOf(tree, cmd.host), LAMBDA f : f.path = cmd.path)
         IN  IF hit = <<>> THEN <<>> ELSE hit[1].data
    ELSE <<>>

\* the file trees after the shell has run a command: rm deletes the
\* files it names, find and cat change nothing
Effect(cmd, tree) ==
    IF cmd.prog = "rm" /\ cmd.host \in DOMAIN tree
    THEN [tree EXCEPT ![cmd.host] =
             SelectSeq(@, LAMBDA f : f.path \notin Range(cmd.files))]
    ELSE tree

\* the trees the shell can reach: a command sent to a host that is down
\* exits non-zero with nothing on stdout, and line 93 keeps only stdout
Seen(tree, dn) == [h \in DOMAIN tree \ dn |-> tree[h]]

\* run_command: the text it returns
run_command(cmd, dry_run, tree) == IF dry_run THEN <<>> ELSE Stdout(cmd, tree)

\* the entry run_command adds to the log of commands
Logged(cmd, dry_run) == [cmd |-> cmd, dry |-> dry_run]

\* find_files: [val: the list of paths, cmds: the commands it ran]
find_files(t, name, tree) ==
    LET cmd == FindCmd(t.host, t.path, name)
    IN  [val  |-> PySplit(run_command(cmd, FALSE, tree)),
         cmds |-> <<Logged(cmd, FALSE)>>]

----------------------------------------------------------------------------
(* read_syncignore *)

\* lines 153-159 for one marker file of a local target
IgnoredOf(t, path, tree) ==
    LET lines  == PySplitOn(run_command(CatCmd(t.host, path), FALSE, tree), "\n")
        reldir == PyStrip(PySlice(PyDirname(path), Len(t.path), Len(PyDirname(path))),
                          {"/"})
    IN  [k \in 1..Len(lines) |-> reldir \o <<"/">> \o PyStrip(lines[k], Whitespace)]

\* read_syncignore: [exc, val, cmds]
read_syncignore(t, tree) ==
    LET found == find_files(t, MarkerName, tree)
        paths == found.val
    IN  IF paths # <<>> /\ ~is_local(t)
        THEN \* line 156 reads the undefined name `host`
             [exc |-> "NameError", val |-> <<>>, cmds |-> found.cmds]
        ELSE [exc  |-> "",
              val  |-> Flatten([k \in 1..Len(paths) |-> IgnoredOf(t, paths[k], tree)]),
              cmds |-> found.cmds \o
                       [k \in 1..Len(paths) |-> Logged(CatCmd(t.host, paths[k]), FALSE)]]

----------------------------------------------------------------------------
(* read_syncconf *)

OnlyWord == <<"o", "n", "l", "y">>
IgnoreWord == <<"i", "g", "n", "o", "r", "e">>

SyncConf(only, ignore) == [only |-> only, ignore |-> ignore]

Raised(name) == [exc |-> name, val |-> SyncConf({}, {})]

\* the loop of lines 117-135 over the remaining lines
RECURSIVE ParseLines(_, _, _)
ParseLines(lines, set_only, set_ignore) ==
    IF lines = <<>>
    THEN [exc |-> "", val |-> SyncConf(set_only, set_ignore)]
    ELSE LET line == PyStrip(Head(lines), Whitespace)
             spl  == PySplit(line)
         IN  IF line # <<>> /\ Head(line) = "#"
             THEN ParseLines(Tail(lines), set_only, set_ignore)
             ELSE IF spl = <<>>
             THEN Raised("IndexError")
             ELSE IF spl[1] = OnlyWord
             THEN IF Len(spl) < 2 THEN Raised("IndexError")
                  ELSE IF PyFind(spl[2], ":") < 0 THEN Raised("AssertionError")
                  ELSE LET hs == PySplitOnce(spl[2], ":")
                       IN  IF hs[1] # HostLocal /\ hs[1] # HostRemote
                           THEN Raised("AssertionError")
                           ELSE ParseLines(Tail(lines),
                                           set_only \cup {<<hs[1], hs[2]>>},
                                           set_ignore)
             ELSE IF spl[1] = IgnoreWord
             THEN IF Len(spl) < 2 THEN Raised("IndexError")
                  ELSE ParseLines(Tail(lines), set_only, set_ignore \cup {spl[2]})
             ELSE ParseLines(Tail(lines), set_only, set_ignore)

\* read_syncconf: [exc, val]
read_syncconf(file) ==
    IF ~file.exists THEN Raised("FileNotFoundError")
    ELSE ParseLines(file.lines, {}, {})

----------------------------------------------------------------------------
(* clear and rsync *)

\* the orders in which a Python set may be iterated
Orders(S) == {q \in [1..Cardinality(S) -> S] : Range(q) = S}

\* clear leaving at once in a dry run, before it logs its rm command
ClearSilentWhenDry(t, cf, dry_run, tree) ==
    LET foreign == {r \in cf.only : r[1] # t.host}
        rm      == RmCmd(t.host, <<>>)
    IN  IF dry_run
        THEN {[exc |-> "", cmds |-> <<>>, removed |-> <<>>, fs |-> tree]}
        ELSE IF foreign # {}
        THEN {[exc     |-> "AttributeError",
               cmds    |-> find_files(t, r[2], tree).cmds,
               removed |-> <<>>,
               fs      |-> tree] : r \in foreign}
        ELSE {[exc     |-> "",
               cmds    |-> <<Logged(rm, dry_run)>>,
               removed |-> <<>>,
               fs      |-> Effect(rm, tree)]}

\* clear with the list of line 180 taken as find_files returns it, and
\* the rm of line 188 run whatever dry_run says
ClearForReal(t, cf, dry_run, tree) ==
    {LET found == Flatten([k \in 1..Len(o) |-> find_files(t, o[k][2], tree).val])
         rm    == RmCmd(t.host, found)
     IN  [exc     |-> "",
          cmds    |-> Flatten([k \in 1..Len(o) |-> find_files(t, o[k][2], tree).cmds])
                      \o <<Logged(rm, dry_run)>>,
          removed |-> found,
          fs      |-> Effect(rm, tree)] :
        o \in Orders({r \in cf.only : r[1] # t.host})}

\* clear with the list of line 180 taken as find_files returns it
ClearRemoving(t, cf, dry_run, tree) ==
    {LET found == Flatten([k \in 1..Len(o) |-> find_files(t, o[k][2], tree).val])
         rm    == RmCmd(t.host, found)
     IN  [exc     |-> "",
          cmds    |-> Flatten([k \in 1..Len(o) |-> find_files(t, o[k][2], tree).cmds])
                      \o <<Logged(rm, dry_run)>>,
          removed |-> found,
          fs      |-> IF dry_run THEN tree ELSE Effect(rm, tree)] :
        o \in Orders({r \in cf.only : r[1] # t.host})}

\* clear: the set of its possible outcomes [exc, cmds, removed, fs]; the
\* rules are iterated in set order, and the first rule of another host
\* ends the call at line 180: find_files returns a list, which has no split
clear(t, cf, dry_run, tree) ==
    LET foreign == {r \in cf.only : r[1] # t.host}
        rm      == RmCmd(t.host, <<>>)
    IN  IF foreign # {}
        THEN {[exc     |-> "AttributeError",
               cmds    |-> find_files(t, r[2], tree).cmds,
               removed |-> <<>>,
               fs      |-> tree] : r \in foreign}
        ELSE {[exc     |-> "",
               cmds    |-> <<Logged(rm, dry_run)>>,
               removed |-> <<>>,
               fs      |-> IF dry_run THEN tree ELSE Effect(rm, tree)]}

\* the command of lines 210-214 as a mirror that deletes and overwrites
RsyncCmdDeleting(from, to, excludes, dry_run) ==
    [prog |-> "rsync", flags |-> <<"-ahvz", "--delete">>,
     src |-> TargetStr(from), dest |-> TargetStr(to),
     excludes |-> excludes, dry |-> dry_run]

\* the command of lines 210-214
RsyncCmd(from, to, excludes, dry_run) ==
    [prog |-> "rsync", flags |-> <<"-ahvz", "--update">>,
     src |-> TargetStr(from), dest |-> TargetStr(to),
     excludes |-> excludes, dry |-> dry_run]

\* lines 203-205 with the host test inverted
OwnSnipetsOfOthers(t, cf) == {r[2] : r \in {q \in cf.only : q[1] # t.host}}

\* the snipets of lines 203-205
OwnSnipets(t, cf) == {r[2] : r \in {q \in cf.only : q[1] = t.host}}

\* rsync: the set of its possible outcomes [exc, cmds, logged, ignored, cmd];
\* logged tells whether line 207 was reached, cmd is the command built at
\* line 210.  The call always ends at line 216, which reads the undefined
\* name `args` before run_command is entered, so cmd never reaches the shell
rsync(from, to, cf, dry_run, tree) ==
    LET ri == read_syncignore(from, tree)
        none == RsyncCmd(from, to, <<>>, dry_run)
    IN  IF ~(is_local(from) \/ is_local(to))
        THEN {[exc |-> "AssertionError", cmds |-> <<>>, logged |-> FALSE,
               ignored |-> <<>>, cmd |-> none]}
        ELSE IF ri.exc # ""
        THEN {[exc |-> ri.exc, cmds |-> ri.cmds, logged |-> FALSE,
               ignored |-> <<>>, cmd |-> none]}
        ELSE {[exc     |-> "NameError",
               cmds    |-> ri.cmds,
               logged  |-> TRUE,
               ignored |-> ri.val \o ig \o own,
               cmd     |-> RsyncCmd(from, to, ri.val \o ig \o own, dry_run)] :
                  ig \in Orders(cf.ignore), own \in Orders(OwnSnipets(from, cf))}

----------------------------------------------------------------------------
(* Inputs: command lines, configuration files and file trees *)

HostA == <<"a">>
HostB == <<"b">>
Root == <<"/", "r">>
SubDir == <<"s", "u", "b">>

LocalTarget == Target(HostLocal, Root)
RemoteTargets == {Target(HostA, Root), Target(HostB, Root)}

RootMarker == Root \o <<"/">> \o MarkerName
SubMarker == Root \o <<"/">> \o SubDir \o <<"/">> \o MarkerName
FileK == Root \o <<"/", "k">>
FileJ == Root \o <<"/", "j">>
SubK == Root \o <<"/">> \o SubDir \o <<"/", "k">>

File(path, data) == [path |-> path, data |-> data]

\* characters of the strings handed to str2target
TargetChars == {"h", ":", "/", "p"}

\* lines a configuration file is made of
ConfLineSamples ==
    {PyJoin(<<OnlyWord, HostLocal \o <<":", "k">>>>, <<" ">>) \o <<"\n">>,
     PyJoin(<<OnlyWord, HostRemote \o <<":", "k">>>>, <<" ">>) \o <<"\n">>,
     PyJoin(<<OnlyWord, <<"k">>>>, <<" ">>) \o <<"\n">>,
     PyJoin(<<OnlyWord, HostA \o <<":", "k">>>>, <<" ">>) \o <<"\n">>,
     PyJoin(<<IgnoreWord, <<"t">>>>, <<" ">>) \o <<"\n">>,
     <<" ">> \o PyJoin(<<IgnoreWord, <<"*">>>>, <<" ", " ">>) \o <<" ", "\n">>,
     PyJoin(<<<<"s", "y", "n", "c">>, <<"k">>>>, <<" ">>) \o <<"\n">>,
     <<"#", " ", "c", "\n">>,
     <<"\n">>}

ConfFiles ==
    {[exists |-> FALSE, lines |-> <<>>]} \cup
    {[exists |-> TRUE, lines |-> ls] : ls \in SeqsUpTo(ConfLineSamples, MaxConfLines)}

\* the SyncConf values read_syncconf can return
Confs ==
    {SyncConf(o, i) : o \in SUBSET {<<HostLocal, <<"k">>>>, <<HostRemote, <<"k">>>>},
                      i \in SUBSET {<<"t">>, <<"*">>}}

\* contents of a .syncignore file
MarkerLineSamples == {<<"x">>, <<" ", "y">>, <<>>}
MarkerData ==
    {PyJoin(ls, <<"\n">>) \o nl :
        ls \in SeqsUpTo(MarkerLineSamples, MaxMarkerLines), nl \in {<<>>, <<"\n">>}}

Optional(path, datas) == {<<>>} \cup {<<File(path, d)>> : d \in datas}

\* a tree with up to two .syncignore files, in either traversal order
MarkerTrees ==
    UNION {{a \o b, b \o a} :
              a \in Optional(RootMarker, MarkerData), b \in Optional(SubMarker, MarkerData)}

\* a tree with at most one .syncignore file
OneMarkerTrees == Optional(RootMarker, MarkerData) \cup Optional(SubMarker, MarkerData)

\* a tree of ordinary files
PlainTrees ==
    {a \o b \o c : a \in Optional(FileK, {<<"1">>}), b \in Optional(SubK, {<<"2">>}),
                   c \in Optional(FileJ, {<<"3">>})}

NoTarget == Target(<<>>, <<>>)
NoOpts == [src |-> <<>>, dests |-> <<>>, dry_run |-> FALSE]
NoFile == [exists |-> FALSE, lines |-> <<>>]
NotLogged == [logged |-> FALSE, val |-> <<>>, cmd |-> <<>>]

\* what every call starts from
Fresh ==
    /\ exc = ""
    /\ ret = <<>>
    /\ cmds = <<>>
    /\ ignored = NotLogged
    /\ removed = <<>>

----------------------------------------------------------------------------
(* Target.str2target on every short string *)

InitTarget ==
    /\ Fresh
    /\ pc = "call:str2target"
    /\ s \in SeqsUpTo(TargetChars, MaxStr)
    /\ opts = NoOpts /\ conffile = NoFile /\ fs = <<>>
    /\ target = NoTarget /\ src = NoTarget /\ dest = NoTarget
    /\ conf = SyncConf({}, {})
    /\ fs0 = fs
    /\ down = {}

Str2Target ==
    /\ pc = "call:str2target"
    /\ pc' = "returned"
    /\ ret' = str2target(s)
    /\ UNCHANGED <<fs0, down, exc, opts, conffile, fs, s, target, src, dest, conf, cmds,
                   ignored, removed>>

SpecTarget == InitTarget /\ [][Str2Target]_vars

----------------------------------------------------------------------------
(* read_syncconf on every short configuration file *)

InitConf ==
    /\ Fresh
    /\ pc = "call:read_syncconf"
    /\ conffile \in ConfFiles
    /\ opts = NoOpts /\ fs = <<>> /\ s = <<>>
    /\ target = NoTarget /\ src = NoTarget /\ dest = NoTarget
    /\ conf = SyncConf({}, {})
    /\ fs0 = fs
    /\ down = {}

ReadSyncConf ==
    /\ pc = "call:read_syncconf"
    /\ LET r == read_syncconf(conffile)
       IN  /\ pc' = IF r.exc = "" THEN "returned" ELSE "raised"
           /\ exc' = r.exc
           /\ ret' = r.val
    /\ UNCHANGED <<fs0, down, opts, conffile, fs, s, target, src, dest, conf, cmds,
                   ignored, removed>>

SpecConf == InitConf /\ [][ReadSyncConf]_vars

----------------------------------------------------------------------------
(* read_syncignore on a local or a remote target *)

InitIgnore ==
    /\ Fresh
    /\ pc = "call:read_syncignore"
    /\ target \in {LocalTarget, Target(HostA, Root)}
    /\ \E tree \in MarkerTrees : fs = (target.host :> tree)
    /\ opts = NoOpts /\ conffile = NoFile /\ s = <<>>
    /\ src = NoTarget /\ dest = NoTarget
    /\ conf = SyncConf({}, {})
    /\ fs0 = fs
    /\ down \in SUBSET {HostA}

ReadSyncIgnore ==
    /\ pc = "call:read_syncignore"
    /\ LET r == read_syncignore(target, Seen(fs, down))
       IN  /\ pc' = IF r.exc = "" THEN "returned" ELSE "raised"
           /\ exc' = r.exc
           /\ ret' = r.val
           /\ cmds' = cmds \o r.cmds
    /\ UNCHANGED <<fs0, down, opts, conffile, fs, s, target, src, dest, conf, ignored, removed>>

SpecIgnore == InitIgnore /\ [][ReadSyncIgnore]_vars

----------------------------------------------------------------------------
(* rsync between the local target and a remote one, in both directions *)

InitRsync ==
    /\ Fresh
    /\ pc = "call:rsync"
    /\ \E r \in {Target(HostA, Root)} :
          \/ src = LocalTarget /\ dest = r
          \/ src = r /\ dest = LocalTarget
    /\ \E tree \in OneMarkerTrees, k \in Optional(FileK, {<<"1">>}),
          other \in Optional(FileK, {<<"9">>}) :
          fs = (src.host :> (tree \o k)) @@ (dest.host :> other)
    /\ conf \in Confs
    /\ opts \in {[src |-> <<>>, dests |-> <<>>, dry_run |-> d] : d \in BOOLEAN}
    /\ conffile = NoFile /\ s = <<>> /\ target = NoTarget
    /\ fs0 = fs
    /\ down \in SUBSET {HostA}

Rsync ==
    /\ pc = "call:rsync"
    /\ \E o \in rsync(src, dest, conf, opts.dry_run, Seen(fs, down)) :
          /\ pc' = IF o.exc = "" THEN "returned" ELSE "raised"
          /\ exc' = o.exc
          /\ cmds' = cmds \o o.cmds
          /\ ignored' = [logged |-> o.logged, val |-> o.ignored, cmd |-> o.cmd]
    /\ UNCHANGED <<fs0, down, ret, opts, conffile, fs, s, target, src, dest, conf, removed>>

SpecRsync == InitRsync /\ [][Rsync]_vars

----------------------------------------------------------------------------
(* clear on a local or a remote target *)

InitClear ==
    /\ Fresh
    /\ pc = "call:clear"
    /\ target \in {LocalTarget, Target(HostA, Root)}
    /\ \E tree \in PlainTrees : fs = (target.host :> tree)
    /\ conf \in Confs
    /\ opts \in {[src |-> <<>>, dests |-> <<>>, dry_run |-> d] : d \in BOOLEAN}
    /\ conffile = NoFile /\ s = <<>> /\ src = NoTarget /\ dest = NoTarget
    /\ fs0 = fs
    /\ down \in SUBSET {HostA}

Clear ==
    /\ pc = "call:clear"
    /\ \E o \in clear(target, conf, opts.dry_run, Seen(fs, down)) :
          /\ pc' = IF o.exc = "" THEN "returned" ELSE "raised"
          /\ exc' = o.exc
          /\ cmds' = cmds \o o.cmds
          /\ removed' = o.removed
          /\ fs' = [h \in DOMAIN fs |-> IF h \in DOMAIN o.fs THEN o.fs[h] ELSE fs[h]]
    /\ UNCHANGED <<fs0, down, ret, opts, conffile, s, target, src, dest, conf, ignored>>

SpecClear == InitClear /\ [][Clear]_vars

----------------------------------------------------------------------------
(* main: one run of the script *)

DestArgs == {HostA \o <<":">> \o Root, HostB \o <<":">> \o Root}

\* opts as argparse builds it (lines 10-12): src is a list of one string,
\* dests a non-empty list of strings
Opts ==
    {[src |-> <<Root>>, dests |-> ds, dry_run |-> d] :
        ds \in SeqsUpTo(DestArgs, MaxDests) \ {<<>>}, d \in BOOLEAN}

Init ==
    /\ Fresh
    /\ pc = "main:224"
    /\ opts \in Opts
    /\ conffile \in ConfFiles
    /\ \E tl \in PlainTrees, ta \in PlainTrees :
          fs = (HostLocal :> tl) @@ (HostA :> ta) @@ (HostB :> <<>>)
    /\ s = <<>> /\ target = NoTarget /\ src = NoTarget /\ dest = NoTarget
    /\ conf = SyncConf({}, {})
    /\ fs0 = fs
    /\ down \in SUBSET {HostA}

\* line 224
MainReadSyncConf ==
    /\ pc = "main:224"
    /\ LET r == read_syncconf(conffile)
       IN  /\ pc' = IF r.exc = "" THEN "main:226" ELSE "raised"
           /\ exc' = r.exc
           /\ conf' = r.val
    /\ UNCHANGED <<fs0, down, ret, opts, conffile, fs, s, target, src, dest, cmds, ignored,
                   removed>>

\* line 226: opts.src is a list (nargs=1), and str2target calls s.find on
\* it at line 72; a list has no find
MainStr2TargetSrc ==
    /\ pc = "main:226"
    /\ pc' = "raised"
    /\ exc' = "AttributeError"
    /\ UNCHANGED <<fs0, down, ret, opts, conffile, fs, s, target, src, dest, conf, cmds,
                   ignored, removed>>

Next == MainReadSyncConf \/ MainStr2TargetSrc

Spec == Init /\ [][Next]_vars

----------------------------------------------------------------------------
(* The run of main: claims C1-C4 *)

\* the run of main has ended; it only ever ends by an exception
RunOver == pc = "raised"

\* the target the documentation gives for a command-line string: host
\* before the first ':' and path after it, or a local target
ClaimedTarget(str) ==
    LET i == PyFind(str, ":")
    IN  IF i > 0
        THEN Target(PySlice(str, 0, i), PySlice(str, i + 1, Len(str)))
        ELSE Target(HostLocal, str)

TheSource == Target(HostLocal, opts.src[1])
TheDests == {ClaimedTarget(opts.dests[k]) : k \in 1..Len(opts.dests)}

IsMirror(entry, from, to) ==
    /\ entry.cmd.prog = "rsync"
    /\ entry.cmd.src = TargetStr(from)
    /\ entry.cmd.dest = TargetStr(to)

IsPurge(entry, t) == entry.cmd.prog = "rm" /\ entry.cmd.host = t.host

Mirrors == {i \in 1..Len(cmds) : cmds[i].cmd.prog = "rsync"}
Purges == {i \in 1..Len(cmds) : cmds[i].cmd.prog = "rm"}

\* the configuration file loads, and loads as no rule at all
NoRules == read_syncconf(conffile) = [exc |-> "", val |-> SyncConf({}, {})]

\* C1: when a run of main has ended, for every dest d the mirror from d
\* to the source was issued, and strictly before the mirror from the
\* source to d.
C1_PullBeforePush ==
    RunOver /\ read_syncconf(conffile).exc = "" =>
        \A d \in TheDests :
            \E i, j \in 1..Len(cmds) :
                /\ i < j
                /\ IsMirror(cmds[i], d, TheSource)
                /\ IsMirror(cmds[j], TheSource, d)

\* C2: when a run of main has ended, a purge was issued for the source
\* and for every dest, and every purge comes after every mirror, both
\* legs of every dest having been issued.
C2_PurgeAfterMirror ==
    RunOver /\ read_syncconf(conffile).exc = "" =>
        /\ \A t \in {TheSource} \cup TheDests : \E i \in Purges : IsPurge(cmds[i], t)
        /\ \A i \in Purges : \A j \in Mirrors : j < i
        /\ Cardinality(Mirrors) = 2 * Len(opts.dests)

\* C3: with no rule and no marker file, when a run of main has ended
\* every file that was on one participating target before the run is on
\* the source and on every dest.
C3_GatherThenBroadcast ==
    RunOver /\ NoRules =>
        \A t \in {TheSource} \cup TheDests : \A k \in 1..Len(FilesOf(fs0, t.host)) :
            \A u \in {TheSource} \cup TheDests :
                \E n \in 1..Len(FilesOf(fs, u.host)) :
                    FilesOf(fs, u.host)[n].path = FilesOf(fs0, t.host)[k].path

\* C4: with empty only and ignore, when a run of main has ended exactly
\* 2 * |dests| mirror commands and no delete command were issued.
C4_TwoMirrorsPerDest ==
    RunOver /\ NoRules =>
        /\ Cardinality(Mirrors) = 2 * Len(opts.dests)
        /\ Purges = {}

----------------------------------------------------------------------------
(* clear, rsync and read_syncignore: claims C5-C8 *)

\* C5: when clear(t, conf) has ended, for every rule (host, pattern) of
\* conf.only with host # t.host, every file under t that matches pattern
\* is in the list of removed files.
C5_PurgeCoverage ==
    pc \in {"returned", "raised"} =>
        \A r \in conf.only :
            r[1] # target.host =>
                \A f \in Range(Matches(fs0, target.host, target.path, r[2])) :
                    f.path \in Range(removed)

\* C6: the exclusion list rsync assembles for a mirror from source t is,
\* as a set, read_syncignore(t) united with conf.ignore united with the
\* patterns of the only rules whose host is t.host, and nothing else; the
\* command built from it carries exactly that list.
C6_ExclusionAssembly ==
    ignored.logged =>
        /\ Range(ignored.val) =
              Range(read_syncignore(src, Seen(fs0, down)).val) \cup conf.ignore
                 \cup {r[2] : r \in {q \in conf.only : q[1] = src.host}}
        /\ ignored.cmd.excludes = ignored.val
        /\ ignored.cmd.src = TargetStr(src)

\* a mirror from the local source whose exclusions come from a marker
\* file, an ignore rule and an only rule of the source's host
C6_Witness ==
    /\ ignored.logged
    /\ is_local(src)
    /\ read_syncignore(src, Seen(fs0, down)).val # <<>>
    /\ conf.ignore # {}
    /\ \E r \in conf.only : r[1] = src.host
    /\ \E r \in conf.only : r[1] # src.host

\* the patterns a marker file lists: its non-empty lines, trimmed
Patterns(data) ==
    SelectSeq([k \in 1..Len(PySplitOn(data, "\n")) |->
                  PyStrip(PySplitOn(data, "\n")[k], Whitespace)],
              LAMBDA x : x # <<>>)

\* C7: when read_syncignore has returned, every pattern x of the marker
\* file in directory sub of the root is listed as 'sub/x', and every
\* pattern y of the marker file in the root itself is listed as 'y'.
C7_RootRelative ==
    pc = "returned" =>
        \A f \in Range(FilesOf(fs0, target.host)) : \A x \in Range(Patterns(f.data)) :
            /\ f.path = SubMarker => (SubDir \o <<"/">> \o x) \in Range(ret)
            /\ f.path = RootMarker => x \in Range(ret)

\* C8: when read_syncignore has returned, it lists exactly one exclusion
\* per non-empty line of the marker files, and none that is a bare
\* directory prefix.
C8_EmptyLinesDiscarded ==
    pc = "returned" =>
        /\ Len(ret) =
              Len(Flatten([k \in 1..Len(FilesOf(fs0, target.host)) |->
                              Patterns(FilesOf(fs0, target.host)[k].data)]))
        /\ \A e \in Range(ret) : e # <<>> /\ e[Len(e)] # "/"

----------------------------------------------------------------------------
(* Target.str2target and read_syncconf: claims C9-C10 *)

\* C9: str2target(s) is the remote target with the host before the first
\* ':' and the path after it when s has a host: prefix, and the local
\* target with path s when s holds no ':'.
C9_TargetParsing ==
    pc = "returned" =>
        /\ PyFind(s, ":") > 0 => ret = ClaimedTarget(s) /\ ~is_local(ret)
        /\ PyFind(s, ":") < 0 => ret = Target(HostLocal, s)

\* a line the loader has to reject: neither comment nor blank, with a
\* keyword other than only and ignore, or an only whose argument has no ':'
BadLine(line) ==
    LET spl == PySplit(line)
    IN  /\ spl # <<>>
        /\ Head(spl[1]) # "#"
        /\ \/ spl[1] # OnlyWord /\ spl[1] # IgnoreWord
           \/ spl[1] = OnlyWord /\ Len(spl) >= 2 /\ PyFind(spl[2], ":") < 0

\* C10: when read_syncconf has ended on a file that holds a bad line, it
\* has failed and returned no SyncConf.
C10_RejectsBadLines ==
    pc \in {"returned", "raised"} /\ conffile.exists
        /\ (\E k \in 1..Len(conffile.lines) : BadLine(conffile.lines[k]))
    => pc = "raised"


----------------------------------------------------------------------------
(* read_syncconf on comment and blank lines: claim C11 *)

CommentLine(line) ==
    LET stripped == PyStrip(line, Whitespace)
    IN  stripped # <<>> /\ Head(stripped) = "#"

BlankLine(line) == PyStrip(line, Whitespace) = <<>>

\* a well-formed ownership rule: only <host>:<pattern>, host local or remote
OnlyLine(line) ==
    LET spl == PySplit(line)
    IN  /\ Len(spl) = 2
        /\ spl[1] = OnlyWord
        /\ PyFind(spl[2], ":") > 0
        /\ PySlice(spl[2], 0, PyFind(spl[2], ":")) \in {HostLocal, HostRemote}

\* a well-formed global exclusion: ignore <pattern>
IgnoreLine(line) ==
    LET spl == PySplit(line)
    IN  Len(spl) = 2 /\ spl[1] = IgnoreWord

\* the entry a well-formed line stands for
EntryOf(line) ==
    LET spl == PySplit(line)
        i   == PyFind(spl[2], ":")
    IN  IF spl[1] = OnlyWord
        THEN <<PySlice(spl[2], 0, i), PySlice(spl[2], i + 1, Len(spl[2]))>>
        ELSE spl[2]

\* C11: when read_syncconf has ended on a file made only of comment
\* lines, blank lines and well-formed only and ignore lines, it has
\* returned, and what it returned holds exactly the entries of the
\* well-formed lines.
C11_CommentsAndBlanksSkipped ==
    LET lines == conffile.lines
        all   == 1..Len(lines)
    IN  pc \in {"returned", "raised"} /\ conffile.exists
            /\ (\A k \in all : \/ CommentLine(lines[k]) \/ BlankLine(lines[k])
                               \/ OnlyLine(lines[k]) \/ IgnoreLine(lines[k]))
        => /\ pc = "returned"
           /\ ret = SyncConf({EntryOf(lines[k]) : k \in {n \in all : OnlyLine(lines[n])}},
                             {EntryOf(lines[k]) : k \in {n \in all : IgnoreLine(lines[n])}})

----------------------------------------------------------------------------
(* Failing commands: claims C12-C13 *)

\* a mirror whose remote end is down: its rsync command reports an error
MirrorFailed(entry) ==
    \E d \in TheDests :
        /\ d.host \in down
        /\ IsMirror(entry, d, TheSource) \/ IsMirror(entry, TheSource, d)

\* C12: when a run of main has ended, no mirror and no purge was issued
\* after a mirror whose command reported an error, and when no issued
\* mirror reported an error the whole sequence was issued: both legs of
\* every dest, then the purges.
C12_AbortOnMirrorFailure ==
    RunOver /\ read_syncconf(conffile).exc = "" =>
        /\ \A i \in Mirrors :
              MirrorFailed(cmds[i]) => \A j \in Mirrors \cup Purges : j <= i
        /\ (\A i \in Mirrors : ~MirrorFailed(cmds[i])) =>
              /\ Cardinality(Mirrors) = 2 * Len(opts.dests)
              /\ Purges # {}
              /\ \A i \in Purges : \A j \in Mirrors : j < i

\* C13: when read_syncignore has ended on a target that cannot be
\* reached, it has failed: a listing that failed does not come back as
\* the empty list of a target without marker files.
C13_UnreachableTargetAborts ==
    pc \in {"returned", "raised"} /\ target.host \in down => pc = "raised"

----------------------------------------------------------------------------
(* One call of rsync or of clear, dry or real: claims C14-C15 *)

InitOps == InitRsync \/ InitClear

NextOps == Rsync \/ Clear

SpecOps == InitOps /\ [][NextOps]_vars

\* the call has ended
CallOver == pc \in {"returned", "raised"}

\* the commands of a log, whatever mode they were logged in
Commands(log) == [k \in 1..Len(log) |-> log[k].cmd]

\* a mirror command without its mode
Operation(cmd) == [src |-> cmd.src, dest |-> cmd.dest, excludes |-> cmd.excludes]

\* C14: when a call of rsync or clear has ended, the call in the other
\* mode (real for dry, dry for real) from the same trees and
\* configuration can end the same way with the same operation: the same
\* mirror with the same source, dest and exclusion list, or the same
\* purge of the same target with the same file list, after the same
\* listings.
C14_DryRunPreview ==
    CallOver =>
        /\ src # NoTarget =>
              \E o \in rsync(src, dest, conf, ~opts.dry_run, Seen(fs0, down)) :
                  /\ o.exc = exc
                  /\ o.logged = ignored.logged
                  /\ Commands(o.cmds) = Commands(cmds)
                  /\ Operation(o.cmd) = Operation(ignored.cmd)
        /\ target # NoTarget =>
              \E o \in clear(target, conf, ~opts.dry_run, Seen(fs0, down)) :
                  /\ o.exc = exc
                  /\ Commands(o.cmds) = Commands(cmds)
                  /\ o.removed = removed

\* a dry run of clear that came to its purge command, on a target with files
C14_Witness ==
    /\ pc = "returned" /\ opts.dry_run /\ target # NoTarget
    /\ FilesOf(fs0, target.host) # <<>>
    /\ \E k \in 1..Len(cmds) : cmds[k].cmd.prog = "rm" /\ cmds[k].dry

\* C15: in a dry run no file of any target is created, modified or
\* deleted: when the call has ended the trees are what they were.
C15_DryRunNoSideEffects ==
    CallOver /\ opts.dry_run => fs = fs0

\* a dry run of clear that ended on a target holding a file a rule of
\* another host matches
C15_Witness ==
    /\ CallOver /\ opts.dry_run /\ target # NoTarget
    /\ \E r \in conf.only :
          /\ r[1] # target.host
          /\ Matches(fs0, target.host, target.path, r[2]) # <<>>

----------------------------------------------------------------------------
(* What a mirror does to the files: claims C16-C17 *)

\* C16: when a call of rsync has ended, every file that was on a target
\* is still there with the data it had, and the mirror command the call
\* built updates only (--update) and deletes nothing (no --delete).
C16_MirrorLosesNoData ==
    CallOver /\ src # NoTarget =>
        /\ \A h \in DOMAIN fs0 : \A f \in Range(fs0[h]) : f \in Range(FilesOf(fs, h))
        /\ ignored.logged =>
              /\ "--update" \in Range(ignored.cmd.flags)
              /\ "--delete" \notin Range(ignored.cmd.flags)

\* a mirror command was built while source and dest held the same file
\* with different data
C16_Witness ==
    /\ CallOver /\ ignored.logged
    /\ \E f \in Range(FilesOf(fs0, src.host)), g \in Range(FilesOf(fs0, dest.host)) :
          f.path = g.path /\ f.data # g.data

\* rsync --exclude=PATTERN for a pattern without '/': a path is left
\* out when one of its components matches the pattern
ExcludedByName(rel, excludes) ==
    \E k \in 1..Len(excludes) :
        /\ PyFind(excludes[k], "/") < 0
        /\ \E c \in Range(PySplitOn(rel, "/")) : Glob(excludes[k], c)

\* path of a file of a target, relative to the target's root
RelPath(t, path) == PySlice(path, Len(t.path) + 1, Len(path))

\* what `rsync --update --exclude=... from/ to` has to transfer at the
\* least: the files under from that no exclusion leaves out and that to
\* does not hold
EffectiveDiff(tree, from, to, excludes) ==
    {f \in Range(FilesOf(tree, from.host)) :
        /\ IsUnder(f.path, from.path)
        /\ ~ExcludedByName(RelPath(from, f.path), excludes)
        /\ \A g \in Range(FilesOf(tree, to.host)) :
              ~(IsUnder(g.path, to.path) /\ RelPath(to, g.path) = RelPath(from, f.path))}

\* C17: with no rule, no marker file and every host reachable, when a
\* real run of main has ended the mirrors of a second run have nothing
\* to transfer: between the source and every dest, in both directions,
\* the effective diff is empty.
C17_SecondRunTransfersNothing ==
    RunOver /\ NoRules /\ down = {} /\ ~opts.dry_run =>
        \A d \in TheDests :
            /\ EffectiveDiff(fs, d, TheSource, <<>>) = {}
            /\ EffectiveDiff(fs, TheSource, d, <<>>) = {}

----------------------------------------------------------------------------
(* clear called again, and clear on the owner of a rule: claims C18-C19 *)

Owner(rule, t) ==
    \/ rule[1] = HostLocal /\ is_local(t)
    \/ rule[1] = HostRemote /\ ~is_local(t)

----------------------------------------------------------------------------
(* A mirror into the owner of a rule: claim C20 *)

============================================================================
